---- MODULE Spec2Model ----
(***************************************************************************)
(* Voice-Agent-Leo: the /agent/chat/{session_id} pipeline of src/main.py.  *)
(*                                                                         *)
(* A text is kept run-length encoded: the sequence of its maximal runs of  *)
(* one character, [c |-> character, n |-> repetitions].  Two texts are     *)
(* equal exactly when their encodings are, and lower(), strip(),           *)
(* startswith(), slicing and concatenation are computed on the runs, so a  *)
(* reply of several thousand characters stays a short value.               *)
(*                                                                         *)
(* The handler is an asyncio coroutine: code between two awaits runs       *)
(* without interleaving, so each action below is one such block.           *)
(* transcriber.transcribe() is a synchronous call, hence the upload, the   *)
(* transcription, the cleanup, the validation and the routing up to the    *)
(* first outbound HTTP call form a single block.                           *)
(***************************************************************************)
EXTENDS Integers, Sequences, FiniteSets, TLC

(* ------------------------------ bounds --------------------------------- *)

\* requests the server receives when every provider answer is possible
MaxRequests == 1

\* requests the server receives in the concurrency specification, where the
\* providers answer from the small sets below
MaxConcurrent == 2

\* number of pieces a split reply is assembled from (chunking specification)
MaxChunkPieces == 3

\* messages appended in the prompt-window specification: enough for a log
\* to outgrow the window
MaxLog == 7

\* number of pieces a routed text is assembled from (routing specification)
MaxPieces == 3

(* --------------------------- optional values --------------------------- *)

\* Python None / a missing JSON field
None == [some |-> FALSE, val |-> <<>>]

Some(v) == [some |-> TRUE, val |-> v]

\* Python truthiness of an optional text: None and "" are falsy
Truthy(o) == o.some /\ o.val # <<>>

(* ------------------------------- texts --------------------------------- *)

\* number of characters of a text
RECURSIVE TLen(_)
TLen(t) == IF t = <<>> THEN 0 ELSE t[1].n + TLen(Tail(t))

\* a + b: the runs meeting at the seam are merged when they repeat the same
\* character
Cat(a, b) ==
    IF a = <<>> THEN b
    ELSE IF b = <<>> THEN a
    ELSE IF a[Len(a)].c = b[1].c
         THEN SubSeq(a, 1, Len(a) - 1)
                  \o <<[c |-> b[1].c, n |-> a[Len(a)].n + b[1].n]>>
                  \o Tail(b)
         ELSE a \o b

\* the text made of c repeated n times
Repeat(c, n) == IF n = 0 THEN <<>> ELSE <<[c |-> c, n |-> n]>>

\* the text spelled by a sequence of characters
RECURSIVE Str(_)
Str(chars) ==
    IF chars = <<>> THEN <<>>
    ELSE IF Len(chars) = 1 THEN Repeat(chars[1], 1)
    ELSE LET half == Len(chars) \div 2
         IN  Cat(Str(SubSeq(chars, 1, half)),
                 Str(SubSeq(chars, half + 1, Len(chars))))

UPPER == <<"A","B","C","D","E","F","G","H","I","J","K","L","M",
           "N","O","P","Q","R","S","T","U","V","W","X","Y","Z">>

LOWER == <<"a","b","c","d","e","f","g","h","i","j","k","l","m",
           "n","o","p","q","r","s","t","u","v","w","x","y","z">>

LowerChar(c) ==
    IF \E i \in 1..Len(UPPER) : UPPER[i] = c
    THEN LOWER[CHOOSE i \in 1..Len(UPPER) : UPPER[i] = c]
    ELSE c

\* str.lower(): every character lowered
RECURSIVE lower(_)
lower(s) ==
    IF s = <<>> THEN <<>>
    ELSE Cat(Repeat(LowerChar(s[1].c), s[1].n), lower(Tail(s)))

IsSpace(c) == c \in {" ", "\n", "\t"}

\* str.lstrip(): leading whitespace removed
RECURSIVE lstrip(_)
lstrip(s) ==
    IF s = <<>> \/ ~IsSpace(s[1].c) THEN s ELSE lstrip(Tail(s))

\* str.rstrip(): trailing whitespace removed
RECURSIVE rstrip(_)
rstrip(s) ==
    IF s = <<>> \/ ~IsSpace(s[Len(s)].c) THEN s
    ELSE rstrip(SubSeq(s, 1, Len(s) - 1))

\* str.strip(): leading and trailing whitespace removed
strip(s) == rstrip(lstrip(s))

\* s[:k], k >= 0
RECURSIVE TakeN(_, _)
TakeN(s, k) ==
    IF k = 0 \/ s = <<>> THEN <<>>
    ELSE IF s[1].n <= k THEN <<s[1]>> \o TakeN(Tail(s), k - s[1].n)
    ELSE Repeat(s[1].c, k)

\* s[k:], k >= 0
RECURSIVE SliceFrom(_, _)
SliceFrom(s, k) ==
    IF k = 0 \/ s = <<>> THEN s
    ELSE IF s[1].n <= k THEN SliceFrom(Tail(s), k - s[1].n)
    ELSE <<[c |-> s[1].c, n |-> s[1].n - k]>> \o Tail(s)

\* str.startswith(p)
startswith(s, p) == TakeN(s, TLen(p)) = p

SEARCH_PREFIX == Str(<<"s","e","a","r","c","h",":">>)

NEWS_PREFIX == Str(<<"n","e","w","s",":">>)

(* ------------------------ transcript validation ----------------------- *)

\* line 143 without its whitespace test
RejectedUnlessBlank(t) == Truthy(t.error) \/ ~Truthy(t.text)

\* line 143: transcript.error or not transcript.text or not transcript.text.strip()
Rejected(t) == Truthy(t.error) \/ ~Truthy(t.text) \/ strip(t.text.val) = <<>>

(* ---------------------------- skill routing ---------------------------- *)

\* the routing with the prefixes compared as written, without lower()
RouteCaseSensitive(user_text) ==
    IF startswith(user_text, SEARCH_PREFIX) THEN "search"
    ELSE IF startswith(user_text, NEWS_PREFIX) THEN "news"
    ELSE "chat"

\* the branch chat_with_history takes for a trimmed transcript
Route(user_text) ==
    IF startswith(lower(user_text), SEARCH_PREFIX) THEN "search"
    ELSE IF startswith(lower(user_text), NEWS_PREFIX) THEN "news"
    ELSE "chat"

\* the query cut after the prefix but left untrimmed
SearchQueryUntrimmed(user_text) == SliceFrom(user_text, TLen(SEARCH_PREFIX))

\* search_query = user_text[len("search:"):].strip()
SearchQuery(user_text) == strip(SliceFrom(user_text, TLen(SEARCH_PREFIX)))

\* topic = user_text[len("news:"):].strip()
NewsTopic(user_text) == strip(SliceFrom(user_text, TLen(NEWS_PREFIX)))

\* the argument handed to the skill (none on the conversation branch)
SkillArg(user_text) ==
    IF Route(user_text) = "search" THEN SearchQuery(user_text)
    ELSE IF Route(user_text) = "news" THEN NewsTopic(user_text)
    ELSE <<>>

(* ------------------------ fixed texts of the code ---------------------- *)
PERSONA_PROMPT ==
    Str(<<"Y","o","u"," ","a","r","e"," ","L","e","o",","," ","a"," ","h",
      "e","l","p","f","u","l"," ","a","n","d"," ","f","r","i","e","n",
      "d","l","y"," ","A","I"," ","a","s","s","i","s","t","a","n","t",
      "."," ","Y","o","u"," ","s","p","e","a","k"," ","c","l","e","a",
      "r","l","y",","," ","s","t","a","y"," ","c","o","n","c","i","s",
      "e",","," ","a","n","d"," ","m","a","i","n","t","a","i","n"," ",
      "a"," ","c","o","n","v","e","r","s","a","t","i","o","n","a","l",
      " ","t","o","n","e","."," ","Y","o","u"," ","b","l","e","n","d",
      " ","w","a","r","m","t","h"," ","w","i","t","h"," ","i","n","t",
      "e","l","l","i","g","e","n","c","e",","," ","a","v","o","i","d",
      " ","b","e","i","n","g"," ","o","v","e","r","l","y"," ","f","o",
      "r","m","a","l",","," ","a","n","d"," ","g","e","n","t","l","y",
      " ","s","t","e","e","r"," ","t","h","e"," ","c","o","n","v","e",
      "r","s","a","t","i","o","n"," ","b","a","c","k"," ","i","f"," ",
      "t","h","e"," ","u","s","e","r"," ","g","o","e","s"," ","o","f",
      "f","-","t","o","p","i","c",".">>)

LINK_PREFIX ==
    Str(<<"H","e","r","e","'","s"," ","a"," ","l","i","n","k",":"," ">>)

HEADING_PREFIX ==
    Str(<<"I"," ","f","o","u","n","d"," ","s","o","m","e","t","h","i","n",
      "g"," ","a","b","o","u","t"," ">>)

HEADING_SUFFIX ==
    Str(<<","," ","b","u","t"," ","d","e","t","a","i","l","s"," ","a","r",
      "e"," ","l","i","m","i","t","e","d",".">>)

SEARCH_NO_ANSWER ==
    Str(<<"N","o"," ","d","i","r","e","c","t"," ","a","n","s","w","e","r",
      " ","f","o","u","n","d",","," ","t","r","y"," ","r","e","f","i",
      "n","i","n","g"," ","y","o","u","r"," ","q","u","e","r","y",".">>)

SEARCH_UNAVAILABLE ==
    Str(<<"W","e","b"," ","s","e","a","r","c","h"," ","s","e","r","v","i",
      "c","e"," ","i","s"," ","c","u","r","r","e","n","t","l","y"," ",
      "u","n","a","v","a","i","l","a","b","l","e",".">>)

NEWS_NO_KEY ==
    Str(<<"N","e","w","s","A","P","I"," ","k","e","y"," ","n","o","t"," ",
      "c","o","n","f","i","g","u","r","e","d",";"," ","n","e","w","s",
      " ","f","e","a","t","u","r","e"," ","u","n","a","v","a","i","l",
      "a","b","l","e",".">>)

NEWS_UNAVAILABLE ==
    Str(<<"N","e","w","s"," ","s","e","r","v","i","c","e"," ","i","s"," ",
      "c","u","r","r","e","n","t","l","y"," ","u","n","a","v","a","i",
      "l","a","b","l","e",".">>)

NEWS_NONE_PREFIX ==
    Str(<<"N","o"," ","n","e","w","s"," ","f","o","u","n","d"," ","f","o",
      "r"," ","'">>)

NEWS_NONE_SUFFIX ==
    Str(<<"'",".">>)

NEWS_HEADER ==
    Str(<<"H","e","r","e"," ","a","r","e"," ","t","h","e"," ","t","o","p",
      " ","h","e","a","d","l","i","n","e","s",":","\n">>)

NEWLINE ==
    Str(<<"\n">>)

BULLET ==
    Str(<<"-"," ">>)

\* maxlen = 3000, the chunk size of the speech synthesis step
maxlen == 3000

\* build_gemini_contents(session_id, limit = 5)
HISTORY_LIMIT == 5

\* the startup loop raises RuntimeError unless every key is set
NEWSAPI_KEY == TRUE

(* ----------------------------- history store --------------------------- *)

\* the two roles mixed up
MessageRolesSwapped(role, text) ==
    [role |-> IF role = "user" THEN "model" ELSE "user", text |-> text]

\* {"role": role, "text": text}
Message(role, text) == [role |-> role, text |-> text]

\* chat_history_store.get(session_id, [])
get_chat_history(store, session_id) ==
    IF session_id \in DOMAIN store THEN store[session_id] ELSE <<>>

\* the session's list replaced by a fresh one on every call
add_message_resetting(store, session_id, role, text) ==
    [s \in DOMAIN store \cup {session_id} |->
        IF s = session_id THEN <<Message(role, text)>> ELSE store[s]]

\* one list object shared by all the sessions
add_message_shared(store, session_id, role, text) ==
    [s \in DOMAIN store \cup {session_id} |->
        Append(IF s \in DOMAIN store THEN store[s] ELSE <<>>,
               Message(role, text))]

\* only the messages of the user are kept
add_message_user_only(store, session_id, role, text) ==
    [s \in DOMAIN store \cup {session_id} |->
        LET history == IF s \in DOMAIN store THEN store[s] ELSE <<>>
        IN  IF s = session_id /\ role = "user"
            THEN Append(history, Message(role, text))
            ELSE history]

\* the new message written over the last one
add_message_overwriting(store, session_id, role, text) ==
    [s \in DOMAIN store \cup {session_id} |->
        LET history == IF s \in DOMAIN store THEN store[s] ELSE <<>>
        IN  IF s # session_id THEN history
            ELSE IF history = <<>> THEN <<Message(role, text)>>
            ELSE [history EXCEPT ![Len(history)] = Message(role, text)]]

\* the new message inserted at the front of the list
add_message_prepending(store, session_id, role, text) ==
    [s \in DOMAIN store \cup {session_id} |->
        IF s = session_id
        THEN <<Message(role, text)>>
                 \o (IF s \in DOMAIN store THEN store[s] ELSE <<>>)
        ELSE store[s]]

\* creates the session's list on first use, then appends
add_message_to_history(store, session_id, role, text) ==
    LET created == [s \in DOMAIN store \cup {session_id} |->
                        IF s \in DOMAIN store THEN store[s] ELSE <<>>]
    IN  [created EXCEPT ![session_id] = Append(@, Message(role, text))]

\* history[-limit:-1]: the latest message left out
LastNButOne(history, limit) ==
    IF Len(history) <= limit THEN SubSeq(history, 1, Len(history) - 1)
    ELSE SubSeq(history, Len(history) - limit + 1, Len(history) - 1)

\* history[:limit]: the oldest messages instead of the latest
FirstN(history, limit) ==
    IF Len(history) <= limit THEN history ELSE SubSeq(history, 1, limit)

\* history[-limit:]
LastN(history, limit) ==
    IF Len(history) <= limit THEN history
    ELSE SubSeq(history, Len(history) - limit + 1, Len(history))

build_gemini_contents(store, session_id) ==
    LET history == LastN(get_chat_history(store, session_id), HISTORY_LIMIT)
    IN  [i \in 1..Len(history) |->
            [role |-> history[i].role, parts |-> <<[text |-> history[i].text]>>]]

\* contents = [persona entry] + build_gemini_contents(session_id)
GeminiPayload(store, session_id) ==
    <<[role |-> "model", parts |-> <<[text |-> PERSONA_PROMPT]>>]>>
        \o build_gemini_contents(store, session_id)

(* ------------------------------ the skills ----------------------------- *)

\* An outbound call either raises (transport failure, unparsable body) or
\* yields a response [raised |-> FALSE, status, ...body fields].

\* simple_web_search: the text it returns for a response that did not raise
simple_web_search(resp) ==
    IF resp.status = 200 THEN
        IF Truthy(resp.AbstractText) THEN resp.AbstractText.val
        ELSE IF resp.RelatedTopics # <<>> /\ resp.RelatedTopics[1].Text.some
             THEN resp.RelatedTopics[1].Text.val
        ELSE IF resp.RelatedTopics # <<>> /\ resp.RelatedTopics[1].FirstURL.some
             THEN Cat(LINK_PREFIX, resp.RelatedTopics[1].FirstURL.val)
        ELSE IF Truthy(resp.Heading)
             THEN Cat(Cat(HEADING_PREFIX, resp.Heading.val), HEADING_SUFFIX)
        ELSE SEARCH_NO_ANSWER
    ELSE SEARCH_UNAVAILABLE

RECURSIVE JoinLines(_)
\* "\n".join(lines)
JoinLines(lines) ==
    IF lines = <<>> THEN <<>>
    ELSE IF Len(lines) = 1 THEN lines[1]
    ELSE Cat(Cat(lines[1], NEWLINE), JoinLines(Tail(lines)))

\* the titles read with a default, so that nothing raises
NewsNeverRaises(resp) == FALSE

\* article['title'] raises KeyError when an article has no title
NewsRaises(resp) ==
    /\ resp.status = 200
    /\ \E i \in 1..Len(resp.articles) : ~resp.articles[i].title.some

\* get_latest_news: the text it returns when it does not raise
get_latest_news(topic, resp) ==
    IF ~NEWSAPI_KEY THEN NEWS_NO_KEY
    ELSE IF resp.status # 200 THEN NEWS_UNAVAILABLE
    ELSE IF resp.articles = <<>>
         THEN Cat(Cat(NEWS_NONE_PREFIX, topic), NEWS_NONE_SUFFIX)
    ELSE Cat(NEWS_HEADER,
             JoinLines([i \in 1..Len(resp.articles) |->
                            Cat(BULLET, resp.articles[i].title.val)]))

(* ------------------------- extraction of the reply --------------------- *)

\* the text of the first part taken as it is, without strip()
ExtractReplyUnstripped(llm_data) ==
    IF llm_data.candidates # <<>>
       /\ llm_data.candidates[1].parts # <<>>
       /\ llm_data.candidates[1].parts[1].text.some
    THEN Some(llm_data.candidates[1].parts[1].text.val)
    ELSE None

\* llm_reply of lines 184-192: None, or the stripped text of the first part
\* of the first candidate
ExtractReply(llm_data) ==
    IF llm_data.candidates # <<>>
       /\ llm_data.candidates[1].parts # <<>>
       /\ llm_data.candidates[1].parts[1].text.some
    THEN Some(strip(llm_data.candidates[1].parts[1].text.val))
    ELSE None

(* ------------------------------- chunking ------------------------------ *)

RECURSIVE RangeInclusive(_, _, _)
\* a range that does not stop before its end
RangeInclusive(i, n, step) ==
    IF i > n THEN <<>> ELSE <<i>> \o RangeInclusive(i + step, n, step)

RECURSIVE RangeFrom(_, _, _)
\* range(i, n, step) as the sequence of its elements
RangeFrom(i, n, step) ==
    IF i >= n THEN <<>> ELSE <<i>> \o RangeFrom(i + step, n, step)

\* s[i:i + n + 1]: one character too many
SliceOneMore(s, i, n) == TakeN(SliceFrom(s, i), n + 1)

\* s[i:i + n]: at most n characters from offset i on
Slice(s, i, n) == TakeN(SliceFrom(s, i), n)

\* chunks = [llm_reply[i:i + maxlen] for i in range(0, len(llm_reply), maxlen)]
Chunks(llm_reply) ==
    LET starts == RangeFrom(0, TLen(llm_reply), maxlen)
    IN  [k \in 1..Len(starts) |-> Slice(llm_reply, starts[k], maxlen)]

\* url = data.get("audioFile") or data.get("audio_url")
MurfUrl(data) ==
    IF Truthy(data.audioFile) THEN data.audioFile ELSE data.audio_url

\* generate_murf_audio without its "if not url" test
MurfFailsInTransportOnly(resp) == resp.raised

\* generate_murf_audio raises: the POST failed, or "if not url"
MurfFails(resp) == resp.raised \/ ~Truthy(MurfUrl(resp))

(* ------------------------------- inputs -------------------------------- *)
TxtParis ==
    Str(<<"P","a","r","i","s"," ","i","s"," ","t","h","e"," ","c","a","p",
      "i","t","a","l"," ","o","f"," ","F","r","a","n","c","e",".">>)

TxtTopic ==
    Str(<<"W","e","a","t","h","e","r"," ","-"," ","W","i","k","i","p","e",
      "d","i","a">>)

TxtUrl ==
    Str(<<"h","t","t","p","s",":","/","/","w",".","t","e","s","t">>)

TxtHeading ==
    Str(<<"W","e","a","t","h","e","r">>)

TxtTitle1 ==
    Str(<<"R","a","i","n"," ","a","h","e","a","d">>)

TxtTitle2 ==
    Str(<<"A","I"," ","g","r","o","w","s">>)

TxtSearchWeather ==
    Str(<<"S","e","a","r","c","h",":"," ","w","e","a","t","h","e","r"," ",
      "t","o","d","a","y">>)

TxtWeatherToday ==
    Str(<<"w","e","a","t","h","e","r"," ","t","o","d","a","y">>)

TxtSearchNews ==
    Str(<<" ","S","E","A","R","C","H",":","n","e","w","s",":"," ","r","a",
      "i","n"," ">>)

TxtNews ==
    Str(<<"N","e","w","s",":"," ","a","i">>)

TxtHello ==
    Str(<<" ","h","e","l","l","o"," ">>)

TxtBlank ==
    Str(<<" "," ">>)

TxtErr ==
    Str(<<"b","a","d"," ","a","u","d","i","o">>)

TxtReply ==
    Str(<<" ","h","i","!"," ","\n">>)

UrlA ==
    Str(<<"/","a",".","m","p","3">>)

UrlB ==
    Str(<<"/","b",".","m","p","3">>)

\* a text of n characters, the second half unlike the first
LongText(n) == Cat(Repeat("a", n \div 2), Repeat("b", n - (n \div 2)))

Sessions == {"s1", "s2"}

\* request k is the k-th one to arrive
Requests == 1..(IF MaxRequests > MaxConcurrent THEN MaxRequests ELSE MaxConcurrent)

\* what transcriber.transcribe returns: it raises, or yields a transcript
\* with an error and a text, either of which may be None
Transcripts ==
    { [raised |-> TRUE,  error |-> None,         text |-> None],
      [raised |-> FALSE, error |-> Some(TxtErr), text |-> None],
      [raised |-> FALSE, error |-> Some(TxtErr), text |-> Some(TxtHello)],
      [raised |-> FALSE, error |-> None,         text |-> None],
      [raised |-> FALSE, error |-> None,         text |-> Some(<<>>)],
      [raised |-> FALSE, error |-> None,         text |-> Some(TxtBlank)],
      [raised |-> FALSE, error |-> None,         text |-> Some(TxtSearchWeather)],
      [raised |-> FALSE, error |-> None,         text |-> Some(TxtSearchNews)],
      [raised |-> FALSE, error |-> None,         text |-> Some(TxtNews)],
      [raised |-> FALSE, error |-> None,         text |-> Some(TxtHello)] }

SearchResp(raised, status, abstract, topics, heading) ==
    [raised |-> raised, status |-> status, AbstractText |-> abstract,
     RelatedTopics |-> topics, Heading |-> heading]

\* what the search provider may answer
SearchResponses ==
    { SearchResp(TRUE,  0,   None, <<>>, None),
      SearchResp(FALSE, 503, Some(TxtParis), <<>>, None),
      SearchResp(FALSE, 200, Some(TxtParis), <<>>, None),
      SearchResp(FALSE, 200, Some(<<>>),
                 <<[Text |-> Some(TxtTopic), FirstURL |-> Some(TxtUrl)]>>, None),
      SearchResp(FALSE, 200, None,
                 <<[Text |-> None, FirstURL |-> Some(TxtUrl)]>>, None),
      SearchResp(FALSE, 200, None,
                 <<[Text |-> None, FirstURL |-> None]>>, Some(TxtHeading)),
      SearchResp(FALSE, 200, None, <<>>, None) }

NewsResp(raised, status, articles) ==
    [raised |-> raised, status |-> status, articles |-> articles]

\* what the news provider may answer
NewsResponses ==
    { NewsResp(TRUE,  0,   <<>>),
      NewsResp(FALSE, 500, <<>>),
      NewsResp(FALSE, 200, <<>>),
      NewsResp(FALSE, 200, <<[title |-> Some(TxtTitle1)], [title |-> Some(TxtTitle2)]>>),
      NewsResp(FALSE, 200, <<[title |-> Some(TxtTitle1)], [title |-> None]>>) }

LlmResp(raised, status, candidates) ==
    [raised |-> raised, status |-> status, candidates |-> candidates]

Candidate(text) == [parts |-> <<[text |-> text]>>]

\* what the language-model provider may answer; the long reply makes two
\* chunks
LlmResponses ==
    { LlmResp(TRUE,  0,   <<>>),
      LlmResp(FALSE, 500, <<Candidate(Some(TxtReply))>>),
      LlmResp(FALSE, 200, <<>>),
      LlmResp(FALSE, 200, <<[parts |-> <<>>]>>),
      LlmResp(FALSE, 200, <<Candidate(None)>>),
      LlmResp(FALSE, 200, <<Candidate(Some(TxtBlank))>>),
      LlmResp(FALSE, 200, <<Candidate(Some(TxtReply)), Candidate(Some(TxtHello))>>),
      LlmResp(FALSE, 200, <<Candidate(Some(Cat(TxtBlank, LongText(maxlen + 1))))>>) }

MurfResp(raised, status, audioFile, audio_url) ==
    [raised |-> raised, status |-> status,
     audioFile |-> audioFile, audio_url |-> audio_url]

\* what the speech-synthesis provider may answer
MurfResponses ==
    { MurfResp(TRUE,  0,   None,       None),
      MurfResp(FALSE, 200, Some(UrlA), Some(UrlB)),
      MurfResp(FALSE, 200, Some(<<>>), Some(UrlB)),
      MurfResp(FALSE, 200, None,       None),
      MurfResp(FALSE, 500, Some(UrlA), None) }

(* -------------------------------- state -------------------------------- *)

VARIABLES
    chat_history_store, \* session id -> list of messages (created on first append)
    uploads,            \* temporary audio files present in UPLOADS_DIR, by request
    pc,                 \* per request: the await the handler is suspended at
    session,            \* per request: the session_id path parameter
    transcript,         \* per request: the transcript, once the transcriber returned one
    user_text,          \* per request: local user_text
    gemini_request,     \* per request: the contents posted to the language model
    llm_reply,          \* per request: local llm_reply
    tasks,              \* per request: the generate_murf_audio tasks of gather
    response,           \* per request: the HTTP response, once produced
    unlink_calls,       \* per request: executions of os.unlink(temp_path)
    dispatched,         \* per request: outbound calls issued, per service
    faults,             \* per request: failures the external services showed
    append_log,         \* every add_message_to_history call, in execution order
    route_in,           \* routing specification: the text being assembled
    route_out,          \* routing specification: the router's verdict on it
    contents,           \* prompt-window specification: the last prompt built
    chunk_in,           \* chunking specification: the reply being assembled
    chunk_out           \* chunking specification: the chunks it was split into

pipeline_vars ==
    <<chat_history_store, uploads, pc, session, transcript, user_text,
      gemini_request, llm_reply, tasks, response, unlink_calls, dispatched,
      faults, append_log>>

route_vars == <<route_in, route_out>>

window_vars == <<contents>>

chunk_vars == <<chunk_in, chunk_out>>

\* what the pipeline leaves alone
function_vars == <<route_vars, window_vars, chunk_vars>>

vars == <<pipeline_vars, function_vars>>

NoSession == ""

NoResponse ==
    [status |-> 0, user_text |-> None, llm_text |-> None,
     audio_url |-> None, detail |-> ""]

\* the JSON body {"user_text", "llm_text", "audio_url"} with status 200
Success(text, reply, url) ==
    [status |-> 200, user_text |-> Some(text), llm_text |-> Some(reply),
     audio_url |-> Some(url), detail |-> ""]

\* HTTPException(status_code, detail): the body carries only the detail
Failure(status, detail) ==
    [status |-> status, user_text |-> None, llm_text |-> None,
     audio_url |-> None, detail |-> detail]

\* an exception that is not an HTTPException leaves the handler: the server
\* answers 500
Unhandled == Failure(500, "Internal Server Error")

NoCalls == [stt |-> 0, search |-> 0, news |-> 0, llm |-> 0, tts |-> 0]

\* os.unlink: removes the file, raises FileNotFoundError if it is not there
os_unlink(fs, path) == [fs |-> fs \ {path}, raised |-> path \notin fs]

(* --------------------- failures shown by the services ------------------ *)

\* What an answer of a provider shows, told from the answer alone: the call
\* raised (transport), the status is not a success, an expected field is
\* absent.  A transcript that was returned, whatever it holds, is input to
\* validate, not a failure of the transcriber.

SttFaults(t) == IF t.raised THEN {"stt:raise"} ELSE {}

SearchFaults(resp) ==
    (IF resp.raised THEN {"search:raise"} ELSE {})
    \cup (IF ~resp.raised /\ resp.status # 200 THEN {"search:status"} ELSE {})
    \cup (IF ~resp.raised /\ resp.status = 200 /\ ~resp.AbstractText.some
          THEN {"search:missing"} ELSE {})

NewsFaults(resp) ==
    (IF resp.raised THEN {"news:raise"} ELSE {})
    \cup (IF ~resp.raised /\ resp.status # 200 THEN {"news:status"} ELSE {})
    \cup (IF ~resp.raised /\ resp.status = 200
             /\ \E i \in DOMAIN resp.articles : resp.articles[i].title = None
          THEN {"news:missing"} ELSE {})

LlmFaults(resp) ==
    (IF resp.raised THEN {"llm:raise"} ELSE {})
    \cup (IF ~resp.raised /\ resp.status # 200 THEN {"llm:status"} ELSE {})
    \cup (IF ~resp.raised /\ resp.status = 200
             /\ \/ Len(resp.candidates) = 0
                \/ Len(Head(resp.candidates).parts) = 0
                \/ Head(Head(resp.candidates).parts).text = None
          THEN {"llm:missing"} ELSE {})

MurfFaults(resp) ==
    (IF resp.raised THEN {"tts:raise"} ELSE {})
    \cup (IF ~resp.raised /\ resp.status # 200 THEN {"tts:status"} ELSE {})
    \cup (IF ~resp.raised /\ resp.audioFile = None /\ resp.audio_url = None
          THEN {"tts:missing"} ELSE {})

(* ------------------------------ initial state -------------------------- *)

PipelineInit ==
    /\ chat_history_store = [s \in {} |-> <<>>]
    /\ uploads = {}
    /\ pc = [r \in Requests |-> "idle"]
    /\ session = [r \in Requests |-> NoSession]
    /\ transcript = [r \in Requests |-> None]
    /\ user_text = [r \in Requests |-> <<>>]
    /\ gemini_request = [r \in Requests |-> <<>>]
    /\ llm_reply = [r \in Requests |-> <<>>]
    /\ tasks = [r \in Requests |-> <<>>]
    /\ response = [r \in Requests |-> NoResponse]
    /\ unlink_calls = [r \in Requests |-> 0]
    /\ dispatched = [r \in Requests |-> NoCalls]
    /\ faults = [r \in Requests |-> {}]
    /\ append_log = <<>>

(* ------------------------------- actions ------------------------------- *)

LogEntry(r, role, text) ==
    [request |-> r, session |-> session[r], role |-> role, text |-> text]

\* the handler returns or raises: the response is produced
Exit(r, resp) ==
    /\ pc' = [pc EXCEPT ![r] = "done"]
    /\ response' = [response EXCEPT ![r] = resp]

\* Lines 126-176: a request arrives and runs up to its first await.  The
\* upload is copied into a fresh temporary file, transcribed, the file is
\* unlinked, the transcript is validated and the text routed; the block ends
\* with an error response or with the first outbound call in flight.
chat_with_history(r, sid, copy_raises, t) ==
    LET created == uploads \cup {r}
        in_except == os_unlink(created, r)
        in_finally_after_except == os_unlink(in_except.fs, r)
        in_finally == os_unlink(created, r)
        text == strip(t.text.val)
        store1 == add_message_to_history(chat_history_store, sid, "user", text)
    IN
    /\ pc[r] = "idle"
    /\ IF r = 1 THEN TRUE ELSE pc[r - 1] # "idle"
    /\ session' = [session EXCEPT ![r] = sid]
    /\ UNCHANGED <<llm_reply, tasks, function_vars>>
    /\ IF copy_raises THEN
            \* shutil.copyfileobj raises: nothing below line 129 runs
            /\ uploads' = created
            /\ Exit(r, Unhandled)
            /\ UNCHANGED <<transcript, user_text, gemini_request, unlink_calls,
                           dispatched, faults, chat_history_store, append_log>>
       ELSE IF t.raised THEN
            \* except: unlink, raise HTTPException; finally: unlink again
            /\ uploads' = in_finally_after_except.fs
            /\ unlink_calls' = [unlink_calls EXCEPT ![r] = 2]
            /\ dispatched' = [dispatched EXCEPT ![r].stt = 1]
            /\ faults' = [faults EXCEPT ![r] = SttFaults(t)]
            /\ Exit(r, IF in_except.raised \/ in_finally_after_except.raised
                       THEN Unhandled
                       ELSE Failure(500, "Transcription failed"))
            /\ UNCHANGED <<transcript, user_text, gemini_request,
                           chat_history_store, append_log>>
       ELSE
            /\ uploads' = in_finally.fs
            /\ unlink_calls' = [unlink_calls EXCEPT ![r] = 1]
            /\ transcript' = [transcript EXCEPT ![r] = Some(t)]
            /\ faults' = [faults EXCEPT ![r] = SttFaults(t)]
            /\ IF in_finally.raised THEN
                    /\ Exit(r, Unhandled)
                    /\ dispatched' = [dispatched EXCEPT ![r].stt = 1]
                    /\ UNCHANGED <<user_text, gemini_request,
                                   chat_history_store, append_log>>
               ELSE IF Rejected(t) THEN
                    /\ Exit(r, Failure(400, "Transcription error"))
                    /\ dispatched' = [dispatched EXCEPT ![r].stt = 1]
                    /\ UNCHANGED <<user_text, gemini_request,
                                   chat_history_store, append_log>>
               ELSE
                    /\ user_text' = [user_text EXCEPT ![r] = text]
                    /\ UNCHANGED response
                    /\ IF Route(text) = "search" THEN
                            /\ pc' = [pc EXCEPT ![r] = "search"]
                            /\ dispatched' =
                                 [dispatched EXCEPT ![r].stt = 1, ![r].search = 1]
                            /\ UNCHANGED <<gemini_request, chat_history_store,
                                           append_log>>
                       ELSE IF Route(text) = "news" THEN
                            /\ pc' = [pc EXCEPT ![r] = "news"]
                            /\ dispatched' =
                                 [dispatched EXCEPT ![r].stt = 1, ![r].news = 1]
                            /\ UNCHANGED <<gemini_request, chat_history_store,
                                           append_log>>
                       ELSE
                            /\ chat_history_store' = store1
                            /\ append_log' =
                                 Append(append_log,
                                        [request |-> r, session |-> sid,
                                         role |-> "user", text |-> text])
                            /\ gemini_request' =
                                 [gemini_request EXCEPT ![r] =
                                      GeminiPayload(store1, sid)]
                            /\ pc' = [pc EXCEPT ![r] = "gemini"]
                            /\ dispatched' =
                                 [dispatched EXCEPT ![r].stt = 1, ![r].llm = 1]

\* Lines 84-101 and 153-155: the search provider answers; the handler
\* records both messages and returns.
search_returns(r, resp) ==
    LET search_query == SearchQuery(user_text[r])
        search_result == simple_web_search(resp)
        store1 == add_message_to_history(chat_history_store, session[r],
                                         "user", user_text[r])
        store2 == add_message_to_history(store1, session[r],
                                         "model", search_result)
    IN
    /\ pc[r] = "search"
    /\ faults' = [faults EXCEPT ![r] = @ \cup SearchFaults(resp)]
    /\ UNCHANGED <<uploads, session, transcript, user_text, gemini_request,
                   llm_reply, tasks, unlink_calls, dispatched, function_vars>>
    /\ IF resp.raised THEN
            /\ Exit(r, Unhandled)
            /\ UNCHANGED <<chat_history_store, append_log>>
       ELSE
            /\ chat_history_store' = store2
            /\ append_log' = append_log \o
                                <<LogEntry(r, "user", user_text[r]),
                                  LogEntry(r, "model", search_result)>>
            /\ Exit(r, Success(user_text[r], search_result, <<>>))

\* Lines 113-122 and 161-163: the news provider answers.
news_returns(r, resp) ==
    LET topic == NewsTopic(user_text[r])
        news_report == get_latest_news(topic, resp)
        store1 == add_message_to_history(chat_history_store, session[r],
                                         "user", user_text[r])
        store2 == add_message_to_history(store1, session[r],
                                         "model", news_report)
    IN
    /\ pc[r] = "news"
    /\ faults' = [faults EXCEPT ![r] = @ \cup NewsFaults(resp)]
    /\ UNCHANGED <<uploads, session, transcript, user_text, gemini_request,
                   llm_reply, tasks, unlink_calls, dispatched, function_vars>>
    /\ IF resp.raised \/ NewsRaises(resp) THEN
            /\ Exit(r, Unhandled)
            /\ UNCHANGED <<chat_history_store, append_log>>
       ELSE
            /\ chat_history_store' = store2
            /\ append_log' = append_log \o
                                <<LogEntry(r, "user", user_text[r]),
                                  LogEntry(r, "model", news_report)>>
            /\ Exit(r, Success(user_text[r], news_report, <<>>))

\* the generate_murf_audio coroutine of chunk k, its POST in flight; its
\* chunk is Chunks(llm_reply)[k]; finished is its place in the order in which
\* the tasks of the request complete
NewTask == [state |-> "inflight", url |-> <<>>, finished |-> 0]

\* Lines 176-217: the language model answers.  The handler fails, or records
\* the reply, splits it and hands one generate_murf_audio task per chunk to
\* asyncio.gather; every task posts its chunk before any answer is handled.
gemini_returns(r, resp) ==
    /\ pc[r] = "gemini"
    /\ faults' = [faults EXCEPT ![r] = @ \cup LlmFaults(resp)]
    /\ UNCHANGED <<uploads, session, transcript, user_text, gemini_request,
                   unlink_calls, function_vars>>
    /\ IF resp.raised \/ resp.status # 200 THEN
            /\ Exit(r, Failure(500, "Gemini call failed"))
            /\ UNCHANGED <<chat_history_store, append_log, llm_reply, tasks,
                           dispatched>>
       ELSE \E reply \in {ExtractReply(resp)} :
            IF ~Truthy(reply) THEN
                /\ Exit(r, Failure(500, "LLM reply missing or empty"))
                /\ UNCHANGED <<chat_history_store, append_log, llm_reply,
                               tasks, dispatched>>
            ELSE \E chunks \in {Chunks(reply.val)} :
                /\ llm_reply' = [llm_reply EXCEPT ![r] = reply.val]
                /\ chat_history_store' =
                     add_message_to_history(chat_history_store, session[r],
                                            "model", reply.val)
                /\ append_log' =
                     Append(append_log, LogEntry(r, "model", reply.val))
                /\ tasks' = [tasks EXCEPT ![r] =
                                [k \in 1..Len(chunks) |-> NewTask]]
                /\ dispatched' = [dispatched EXCEPT ![r].tts = Len(chunks)]
                /\ pc' = [pc EXCEPT ![r] = "gather"]
                /\ UNCHANGED response

\* Lines 209-214: the synthesis provider answers the POST of task k.  The
\* task keeps running whether or not the handler still waits for it.
murf_returns(r, k, resp) ==
    LET url == MurfUrl(resp)
        nth == 1 + Cardinality({j \in 1..Len(tasks[r]) :
                                    tasks[r][j].state # "inflight"})
    IN
    /\ k \in 1..Len(tasks[r])
    /\ tasks[r][k].state = "inflight"
    /\ faults' = [faults EXCEPT ![r] = @ \cup MurfFaults(resp)]
    /\ tasks' = [tasks EXCEPT ![r][k] =
                    IF MurfFails(resp)
                    THEN [@ EXCEPT !.state = "raised", !.finished = nth]
                    ELSE [@ EXCEPT !.state = "done", !.url = url.val,
                                   !.finished = nth]]
    /\ UNCHANGED <<chat_history_store, uploads, pc, session, transcript,
                   user_text, gemini_request, llm_reply, response,
                   unlink_calls, dispatched, append_log, function_vars>>

\* a gather that does not pass on the exception of a task
GatherNeverRaised(ts) == FALSE

\* asyncio.gather without return_exceptions: the awaiting handler resumes
\* with the first exception as soon as a task raised, otherwise with the
\* list of results, in task order, once every task is done
GatherRaised(ts) == \E k \in 1..Len(ts) : ts[k].state = "raised"

\* only the first task awaited
GatherFirstDone(ts) == ts # <<>> /\ ts[1].state = "done"

GatherDone(ts) == \A k \in 1..Len(ts) : ts[k].state = "done"

\* the result of the task that completed first
FirstFinishedUrl(ts) == ts[CHOOSE k \in 1..Len(ts) : ts[k].finished = 1].url

\* audio_urls[0]
FirstAudioUrl(ts) == ts[1].url

\* Lines 217-221: the handler resumes from the gather.
gather_returns(r) ==
    /\ pc[r] = "gather"
    /\ GatherRaised(tasks[r]) \/ GatherDone(tasks[r])
    /\ Exit(r, IF GatherRaised(tasks[r])
               THEN Failure(500, "Murf call failed")
               ELSE IF tasks[r] = <<>> THEN Unhandled
               ELSE Success(user_text[r], llm_reply[r], FirstAudioUrl(tasks[r])))
    /\ UNCHANGED <<chat_history_store, uploads, session, transcript,
                   user_text, gemini_request, llm_reply, tasks, unlink_calls,
                   dispatched, faults, append_log, function_vars>>

(* --------------------------- routing of a text ------------------------- *)

\* the pieces a transcript text is assembled from
Pieces ==
    { Str(<<"s","e","a","r","c","h",":">>), Str(<<"S","e","a","r","c","h",":">>),
      Str(<<"n","e","w","s",":">>), Str(<<"N","E","W","S",":">>),
      Str(<<" ">>), TxtWeatherToday,
      Str(<<"s","e","a">>), Str(<<"R","c","H",":">>) }

RECURSIVE Concat(_)
\* the text spelled by a sequence of pieces
Concat(pieces) ==
    IF pieces = <<>> THEN <<>> ELSE Cat(pieces[1], Concat(Tail(pieces)))

NotRouted == [route |-> "", arg |-> <<>>]

\* the transcriber is about to return one more piece of text
route_append(piece) ==
    /\ Len(route_in) < MaxPieces
    /\ route_in' = Append(route_in, piece)
    /\ route_out' = NotRouted
    /\ UNCHANGED <<pipeline_vars, window_vars, chunk_vars>>

\* Lines 143-159 on the assembled text: validation, trimming, routing and
\* the argument of the skill
route_text ==
    LET text == strip(Concat(route_in))
    IN
    /\ route_out = NotRouted
    /\ route_out' = IF text = <<>>
                    THEN [route |-> "rejected", arg |-> <<>>]
                    ELSE [route |-> Route(text), arg |-> SkillArg(text)]
    /\ UNCHANGED <<route_in, pipeline_vars, window_vars, chunk_vars>>

(* --------------------------- the prompt window ------------------------- *)

\* no prompt built since the last append
NotBuilt == [session_id |-> NoSession, entries |-> <<>>]

\* the number of messages of a role in a log
CountRole(history, role) ==
    Cardinality({i \in DOMAIN history : history[i].role = role})

\* the text of the n-th message of the log: every message has its own
TextNo(n) == Repeat("x", n)

\* Lines 63-66, called as the handler calls it (lines 153-154, 161-162, 166,
\* 197): one more message for session "s1", a reply only after the user
\* message of its request.
append_message(role) ==
    LET history == get_chat_history(chat_history_store, "s1")
    IN
    /\ Len(history) < MaxLog
    /\ role = "model" =>
            CountRole(history, "user") > CountRole(history, "model")
    /\ chat_history_store' =
            add_message_to_history(chat_history_store, "s1", role,
                                   TextNo(Len(history) + 1))
    /\ contents' = NotBuilt
    /\ UNCHANGED <<uploads, pc, session, transcript, user_text,
                   gemini_request, llm_reply, tasks, response, unlink_calls,
                   dispatched, faults, append_log, route_vars, chunk_vars>>

\* Line 171: the prompt for a request of the session
build_contents(session_id) ==
    /\ contents' = [session_id |-> session_id,
                    entries |-> GeminiPayload(chat_history_store, session_id)]
    /\ UNCHANGED <<pipeline_vars, route_vars, chunk_vars>>

(* ------------------------- the split into chunks ----------------------- *)

\* the pieces a reply is assembled from: single characters and runs about as
\* long as a chunk
ChunkPieces ==
    { Repeat("a", 1), Repeat("b", 1),
      Repeat("a", maxlen - 1), Repeat("b", maxlen) }

NotSplit == [done |-> FALSE, chunks |-> <<>>]

\* the language model is about to return one more piece of text
chunk_append(piece) ==
    /\ Len(chunk_in) < MaxChunkPieces
    /\ chunk_in' = Append(chunk_in, piece)
    /\ chunk_out' = NotSplit
    /\ UNCHANGED <<pipeline_vars, route_vars, window_vars>>

\* Line 204 on the assembled text
split_reply ==
    /\ chunk_out = NotSplit
    /\ chunk_out' = [done |-> TRUE, chunks |-> Chunks(Concat(chunk_in))]
    /\ UNCHANGED <<chunk_in, pipeline_vars, route_vars, window_vars>>

(* ---------------------------- specification ---------------------------- *)

\* the answers of the providers in the concurrency specification
ConcTranscripts ==
    { [raised |-> FALSE, error |-> Some(TxtErr), text |-> Some(TxtHello)],
      [raised |-> FALSE, error |-> None,         text |-> Some(TxtSearchWeather)],
      [raised |-> FALSE, error |-> None,         text |-> Some(TxtNews)],
      [raised |-> FALSE, error |-> None,         text |-> Some(TxtHello)] }

ConcSearchResponses ==
    { SearchResp(TRUE,  0,   None, <<>>, None),
      SearchResp(FALSE, 200, Some(TxtParis), <<>>, None) }

ConcNewsResponses == { NewsResp(TRUE, 0, <<>>), NewsResp(FALSE, 500, <<>>) }

ConcLlmResponses ==
    { LlmResp(FALSE, 500, <<>>),
      LlmResp(FALSE, 200, <<Candidate(Some(TxtReply))>>) }

ConcMurfResponses ==
    { MurfResp(FALSE, 200, None, None),
      MurfResp(FALSE, 200, Some(UrlA), None) }

Init ==
    /\ PipelineInit
    /\ route_in = <<>>
    /\ route_out = NotRouted
    /\ contents = NotBuilt
    /\ chunk_in = <<>>
    /\ chunk_out = NotSplit

\* one server, every answer of every provider
Next ==
    \/ \E copy_raises \in BOOLEAN, r \in 1..MaxRequests, sid \in Sessions,
           t \in Transcripts :
            chat_with_history(r, sid, copy_raises, t)
    \/ \E r \in Requests, resp \in SearchResponses : search_returns(r, resp)
    \/ \E r \in Requests, resp \in NewsResponses : news_returns(r, resp)
    \/ \E r \in Requests, resp \in LlmResponses : gemini_returns(r, resp)
    \/ \E r \in Requests, resp \in MurfResponses :
            \E k \in 1..Len(tasks[r]) : murf_returns(r, k, resp)
    \/ \E r \in Requests : gather_returns(r)

Spec == Init /\ [][Next]_vars

\* more requests in flight at once, fewer answers per provider
NextConc ==
    \/ \E r \in 1..MaxConcurrent, sid \in Sessions, t \in ConcTranscripts :
            chat_with_history(r, sid, FALSE, t)
    \/ \E r \in Requests, resp \in ConcSearchResponses : search_returns(r, resp)
    \/ \E r \in Requests, resp \in ConcNewsResponses : news_returns(r, resp)
    \/ \E r \in Requests, resp \in ConcLlmResponses : gemini_returns(r, resp)
    \/ \E r \in Requests, resp \in ConcMurfResponses :
            \E k \in 1..Len(tasks[r]) : murf_returns(r, k, resp)
    \/ \E r \in Requests : gather_returns(r)

SpecConc == Init /\ [][NextConc]_vars

\* Every outbound call eventually returns, fails or times out (httpx applies
\* a timeout to each: its default to the search, 10 s to the news, 60 s to
\* the language-model and synthesis calls), and the event loop then resumes
\* the coroutine that awaits it.
Fairness ==
    \A r \in Requests :
        WF_vars(\/ \E resp \in ConcSearchResponses : search_returns(r, resp)
                \/ \E resp \in ConcNewsResponses : news_returns(r, resp)
                \/ \E resp \in ConcLlmResponses : gemini_returns(r, resp)
                \/ \E resp \in ConcMurfResponses :
                        \E k \in 1..Len(tasks[r]) : murf_returns(r, k, resp)
                \/ gather_returns(r))

\* concurrent requests of one session, which all work on the same log
NextLive ==
    \/ \E r \in 1..MaxConcurrent, t \in ConcTranscripts :
            chat_with_history(r, "s1", FALSE, t)
    \/ \E r \in Requests, resp \in ConcSearchResponses : search_returns(r, resp)
    \/ \E r \in Requests, resp \in ConcNewsResponses : news_returns(r, resp)
    \/ \E r \in Requests, resp \in ConcLlmResponses : gemini_returns(r, resp)
    \/ \E r \in Requests, resp \in ConcMurfResponses :
            \E k \in 1..Len(tasks[r]) : murf_returns(r, k, resp)
    \/ \E r \in Requests : gather_returns(r)

\* the concurrent server under the assumption that calls return
SpecLive == Init /\ [][NextLive]_vars /\ Fairness

\* the router alone, on every text of at most MaxPieces pieces
NextRoute ==
    \/ \E piece \in Pieces : route_append(piece)
    \/ route_text

SpecRoute == Init /\ [][NextRoute]_vars

\* what the users of one session say: two conversation texts and a search
SameSessionTranscripts ==
    { [raised |-> FALSE, error |-> None, text |-> Some(TxtSearchWeather)],
      [raised |-> FALSE, error |-> None, text |-> Some(TxtHello)],
      [raised |-> FALSE, error |-> None, text |-> Some(TxtParis)] }

\* concurrent requests of one session that can be told apart by their texts
NextSame ==
    \/ \E r \in 1..MaxConcurrent, t \in SameSessionTranscripts :
            chat_with_history(r, "s1", FALSE, t)
    \/ \E r \in Requests, resp \in ConcSearchResponses : search_returns(r, resp)
    \/ \E r \in Requests, resp \in ConcLlmResponses : gemini_returns(r, resp)
    \/ \E r \in Requests, resp \in ConcMurfResponses :
            \E k \in 1..Len(tasks[r]) : murf_returns(r, k, resp)
    \/ \E r \in Requests : gather_returns(r)

SpecSame == Init /\ [][NextSame]_vars

\* the prompt builder alone, on every log of at most MaxLog messages the
\* handler can produce
NextWindow ==
    \/ \E role \in {"user", "model"} : append_message(role)
    \/ \E session_id \in Sessions : build_contents(session_id)

SpecWindow == Init /\ [][NextWindow]_vars

\* the split alone, on every text of at most MaxChunkPieces pieces
NextChunk ==
    \/ \E piece \in ChunkPieces : chunk_append(piece)
    \/ split_reply

SpecChunk == Init /\ [][NextChunk]_vars

(* ======================================================================= *)
(*                               properties                                *)
(* ======================================================================= *)

\* the characters of a text, one by one
RECURSIVE Expand(_)
Expand(t) ==
    IF t = <<>> THEN <<>>
    ELSE [i \in 1..t[1].n |-> t[1].c] \o Expand(Tail(t))

\* a character and its capital
CaseVariants(c) == {c} \cup {UPPER[i] : i \in {j \in 1..Len(LOWER) : LOWER[j] = c}}

\* chars begins with the lower-case word, in any mix of cases
BeginsWith(chars, word) ==
    /\ Len(chars) >= Len(word)
    /\ \A i \in 1..Len(word) : chars[i] \in CaseVariants(word[i])

\* chars without its leading and trailing blanks
Trimmed(chars) ==
    LET kept == {i \in 1..Len(chars) : chars[i] \notin {" ", "\n", "\t"}}
    IN  IF kept = {} THEN <<>>
        ELSE SubSeq(chars, CHOOSE i \in kept : \A j \in kept : i <= j,
                           CHOOSE i \in kept : \A j \in kept : j <= i)

SearchWord == <<"s","e","a","r","c","h",":">>

NewsWord == <<"n","e","w","s",":">>

Finished(r) == pc[r] = "done"

\* ---------------------------------------------------------------------
\* C1 (as claimed): when a request has exited, whatever its outcome, its
\* temporary audio file no longer exists and os.unlink was executed on it
\* exactly once.
C1_TempFileDeletedExactlyOnce ==
    \A r \in Requests :
        Finished(r) => r \notin uploads /\ unlink_calls[r] = 1

\* ---------------------------------------------------------------------
\* C2 (as claimed): a request during which any external service raised,
\* answered with a non-success status or omitted an expected field ends
\* with status 500.
C2_AnyFaultGives500 ==
    \A r \in Requests :
        Finished(r) /\ faults[r] # {} => response[r].status = 500

\* the failures that end the request with status 500
FatalFaults ==
    {"stt:raise", "search:raise", "news:raise", "news:missing",
     "llm:raise", "llm:status", "llm:missing", "tts:raise", "tts:missing"}

\* the failures that leave the request a success
BenignFaults == {"search:status", "search:missing", "news:status", "tts:status"}

\* C2 (amended): a request ends with status 500 when the transcriber raised,
\* the search or news call raised or a news article has no title, the
\* language model raised, answered with a non-200 status or gave no text
\* field, or a synthesis call raised or gave neither audio field.  A non-200
\* status of the search or news provider gives a 200 response carrying the
\* fixed "unavailable" text; a search answer without abstract and a
\* synthesis answer with a non-200 status but an audio field do not fail
\* the request.
C2_FatalFaultGives500 ==
    \A r \in Requests :
        Finished(r) =>
            /\ faults[r] \cap FatalFaults # {} => response[r].status = 500
            /\ faults[r] # {} /\ faults[r] \subseteq BenignFaults =>
                    response[r].status = 200
            /\ "search:status" \in faults[r] =>
                    response[r].llm_text = Some(SEARCH_UNAVAILABLE)
            /\ "news:status" \in faults[r] =>
                    response[r].llm_text = Some(NEWS_UNAVAILABLE)

C2_Witness ==
    \E r \in Requests :
        /\ Finished(r)
        /\ "llm:status" \in faults[r]
        /\ response[r].status = 500

\* ---------------------------------------------------------------------
\* a transcript with an error, without text, or with a text of blanks only
Unusable(t) ==
    \/ t.error \notin {None, Some(<<>>)}
    \/ t.text = None
    \/ \A i \in DOMAIN t.text.val : t.text.val[i].c \in {" ", "\n", "\t"}

\* C3: a request whose transcript has an error, or has a missing, empty or
\* whitespace-only text, has ended with status 400 and has appended nothing
\* to any session's history.
C3_BadTranscriptRejected ==
    \A r \in Requests :
        transcript[r].some /\ Unusable(transcript[r].val) =>
            /\ Finished(r)
            /\ response[r].status = 400
            /\ \A i \in DOMAIN append_log : append_log[i].request # r

C3_Witness ==
    \E r \in Requests :
        /\ transcript[r].some
        /\ transcript[r].val.text = Some(TxtBlank)
        /\ transcript[r].val.error = None
        /\ response[r].status = 400

\* ---------------------------------------------------------------------
\* C4: once a synthesis answer of a request had neither audio field, the
\* request, when it has ended, has status 500 and returns no audio_url.
C4_MissingAudioFails ==
    \A r \in Requests :
        Finished(r) /\ "tts:missing" \in faults[r] =>
            /\ response[r].status = 500
            /\ response[r].audio_url = None

C4_Witness ==
    \E r \in Requests :
        /\ Finished(r)
        /\ Len(tasks[r]) = 2
        /\ tasks[r][1].state = "done"
        /\ tasks[r][2].state = "raised"
        /\ faults[r] = {"tts:missing"}
        /\ response[r].status = 500

\* ---------------------------------------------------------------------
\* C5 (as claimed): when a request has produced its response, success or
\* failure, none of its synthesis requests is still in flight.
C5_ResponseAfterAllChunks ==
    \A r \in Requests :
        Finished(r) => \A k \in 1..Len(tasks[r]) : tasks[r][k].state # "inflight"

\* C5 (amended): a success response is produced only after every synthesis
\* request of the request has completed; a response produced while some of
\* them are in flight is the 500 that follows the first failed one.
C5_SuccessAfterAllChunks ==
    \A r \in Requests :
        Finished(r) =>
            /\ response[r].status = 200 =>
                    \A k \in 1..Len(tasks[r]) : tasks[r][k].state = "done"
            /\ (\E k \in 1..Len(tasks[r]) : tasks[r][k].state = "inflight") =>
                    /\ response[r].status = 500
                    /\ \E k \in 1..Len(tasks[r]) : tasks[r][k].state = "raised"

C5_Witness ==
    \E r \in Requests :
        /\ Finished(r)
        /\ response[r].status = 200
        /\ Len(tasks[r]) = 2
        /\ \A k \in 1..2 : tasks[r][k].state = "done"

\* ---------------------------------------------------------------------
\* C6: a conversation request that succeeded dispatched as many synthesis
\* requests as its reply has chunks, one task each, and its audio_url is the
\* location returned for the first chunk, whichever task completed first.
C6_FirstChunkUrl ==
    \A r \in Requests :
        Finished(r) /\ response[r].status = 200 /\ dispatched[r].llm = 1 =>
            /\ dispatched[r].tts = (TLen(llm_reply[r]) + maxlen - 1) \div maxlen
            /\ Len(tasks[r]) = dispatched[r].tts
            /\ tasks[r][1].state = "done"
            /\ response[r].audio_url = Some(tasks[r][1].url)

C6_Witness ==
    \E r \in Requests :
        /\ Finished(r)
        /\ response[r].status = 200
        /\ Len(tasks[r]) = 2
        /\ tasks[r][2].finished = 1
        /\ tasks[r][1].finished = 2
        /\ tasks[r][1].url # tasks[r][2].url
        /\ response[r].audio_url = Some(tasks[r][1].url)

\* ---------------------------------------------------------------------
\* C7: a request whose text begins with "search:" or "news:" (in any case)
\* never dispatches a language-model or synthesis request, and the audio_url
\* of its response is the empty string.
C7_SkillsWithoutSynthesis ==
    \A r \in Requests :
        /\ user_text[r] # <<>>
        /\ \/ BeginsWith(Expand(user_text[r]), SearchWord)
           \/ BeginsWith(Expand(user_text[r]), NewsWord)
        => /\ dispatched[r].llm = 0
           /\ dispatched[r].tts = 0
           /\ tasks[r] = <<>>
           /\ dispatched[r].search + dispatched[r].news = 1
           /\ response[r].audio_url \in {None, Some(<<>>)}
           /\ response[r].status = 200 => response[r].audio_url = Some(<<>>)

C7_Witness ==
    \E r \in Requests :
        /\ Finished(r)
        /\ dispatched[r].news = 1
        /\ response[r].status = 200
        /\ response[r].audio_url = Some(<<>>)

\* ---------------------------------------------------------------------
RECURSIVE Spelled(_)
\* the characters of a sequence of pieces
Spelled(pieces) ==
    IF pieces = <<>> THEN <<>> ELSE Expand(pieces[1]) \o Spelled(Tail(pieces))

\* chars from its k-th character on, trimmed
After(chars, k) == Trimmed(SubSeq(chars, k, Len(chars)))

\* C8: the trimmed text goes to the Search Skill when it begins with
\* "search:" in any case, else to the News Skill when it begins with "news:"
\* in any case, else to the Conversation Flow; the skill's argument is the
\* text after the first 7 (search) or 5 (news) characters, trimmed.
C8_Routing ==
    route_out # NotRouted =>
        LET chars == Trimmed(Spelled(route_in))
        IN  IF chars = <<>> THEN route_out.route = "rejected"
            ELSE IF BeginsWith(chars, SearchWord)
                 THEN /\ route_out.route = "search"
                      /\ Expand(route_out.arg) = After(chars, 8)
            ELSE IF BeginsWith(chars, NewsWord)
                 THEN /\ route_out.route = "news"
                      /\ Expand(route_out.arg) = After(chars, 6)
            ELSE route_out.route = "chat"

\* "Search: weather today" gives the query "weather today"
C8_Witness ==
    /\ Concat(route_in) = TxtSearchWeather
    /\ route_out = [route |-> "search", arg |-> TxtWeatherToday]

\* ---------------------------------------------------------------------
RECURSIVE LogOf(_, _)
\* the messages appended for session s, in the order of the calls
LogOf(log, s) ==
    IF log = <<>> THEN <<>>
    ELSE IF log[1].session = s
         THEN <<Message(log[1].role, log[1].text)>> \o LogOf(Tail(log), s)
         ELSE LogOf(Tail(log), s)

\* C9: for every session, get_chat_history returns exactly the messages
\* appended for it, roles and texts, in the order of the appends: the empty
\* sequence for a session nothing was appended to.
C9_HistoryIsAppendLog ==
    \A s \in Sessions :
        get_chat_history(chat_history_store, s) = LogOf(append_log, s)

C9_Witness ==
    \E s, u \in Sessions :
        /\ Len(get_chat_history(chat_history_store, s)) = 4
        /\ u \notin DOMAIN chat_history_store
        /\ get_chat_history(chat_history_store, u) = <<>>

\* ---------------------------------------------------------------------
\* request r takes the step
Acts(r) == pc'[r] # pc[r] \/ tasks'[r] # tasks[r]

\* C10: a step of a request on session A leaves the log of every other
\* session as it was, and every message logged comes from a request on the
\* session it is logged for.
C10_SessionsIsolated ==
    [][ \A r \in Requests :
            Acts(r) =>
                /\ \A s \in Sessions \ {session'[r]} :
                        get_chat_history(chat_history_store', s)
                            = get_chat_history(chat_history_store, s)
                /\ \A i \in DOMAIN append_log' :
                        append_log'[i].session = session'[append_log'[i].request]
      ]_vars

\* two requests on different sessions whose appends interleave
C10_Witness ==
    \E i, j, k \in DOMAIN append_log :
        /\ i < j /\ j < k
        /\ append_log[i].request = append_log[k].request
        /\ append_log[j].request # append_log[i].request
        /\ append_log[j].session # append_log[i].session

\* ---------------------------------------------------------------------
\* the request was received and its handler is suspended at an await
InPipeline(r) == pc[r] \in {"search", "news", "gemini", "gather"}

\* the text is for neither skill
Conversation(chars) ==
    ~BeginsWith(chars, SearchWord) /\ ~BeginsWith(chars, NewsWord)

\* C11: provided every external call eventually returns, fails or times
\* out, every request that was received eventually leaves the pipeline with
\* a response (success or error), and only a request of the conversation
\* branch is ever synthesizing.
C11_EveryRequestLeaves ==
    /\ [](\A r \in Requests :
            pc[r] = "gather" \/ dispatched[r].tts > 0 \/ tasks[r] # <<>>
                => Conversation(Expand(user_text[r])))
    /\ \A r \in Requests :
            InPipeline(r) ~> (Finished(r) /\ response[r].status \in {200, 500})

\* a conversation request that went through synthesis and completed while
\* a skill request completed without it
C11_Witness ==
    \E r, q \in Requests :
        /\ Finished(r) /\ response[r].status = 200 /\ tasks[r] # <<>>
        /\ Finished(q) /\ response[q].status = 200 /\ tasks[q] = <<>>
        /\ dispatched[q].search = 1

\* ---------------------------------------------------------------------
\* a is a prefix of b
IsPrefix(a, b) == Len(a) <= Len(b) /\ \A i \in 1..Len(a) : a[i] = b[i]

\* C12: across every step of every request, in every interleaving, the log
\* of each session before the step is a prefix of its log after the step:
\* no message is removed, reordered or modified.
C12_LogOnlyGrows ==
    [][ \A s \in Sessions :
            IsPrefix(get_chat_history(chat_history_store, s),
                     get_chat_history(chat_history_store', s))
      ]_vars

\* a log that grew by the appends of two requests, the appends of the one
\* around an append of the other
C12_Witness ==
    \E s \in Sessions, i, j, k \in DOMAIN append_log :
        /\ i < j /\ j < k
        /\ append_log[i].session = s
        /\ append_log[j].session = s
        /\ append_log[k].session = s
        /\ append_log[i].request = append_log[k].request
        /\ append_log[j].request # append_log[i].request
        /\ Len(get_chat_history(chat_history_store, s)) >= 3

\* ---------------------------------------------------------------------
\* the positions of the appends request r made
AppendsOf(r) == {i \in DOMAIN append_log : append_log[i].request = r}

\* message m is logged for session s at a position before message n
LoggedInOrder(s, m, n) ==
    LET history == get_chat_history(chat_history_store, s)
    IN  \E i, j \in DOMAIN history :
            i < j /\ history[i] = m /\ history[j] = n

\* C13: a request that completed successfully, on any of the three
\* branches, made exactly two appends, to the log of its own session: its
\* user text with role "user", then its reply with role "model"; the reply
\* logged is the llm_text of the response, and both messages are in the
\* session's log in that order.
C13_SuccessLogsUserThenModel ==
    \A r \in Requests :
        Finished(r) /\ response[r].status = 200 =>
            \E i, j \in AppendsOf(r) :
                /\ AppendsOf(r) = {i, j}
                /\ i < j
                /\ append_log[i] = [request |-> r, session |-> session[r],
                                    role |-> "user",
                                    text |-> response[r].user_text.val]
                /\ append_log[j] = [request |-> r, session |-> session[r],
                                    role |-> "model",
                                    text |-> response[r].llm_text.val]
                /\ response[r].user_text.val = user_text[r]
                /\ LoggedInOrder(session[r],
                                 [role |-> "user", text |-> user_text[r]],
                                 [role |-> "model",
                                  text |-> response[r].llm_text.val])

\* a conversation request and a search request of one session, both
\* successful, the messages of the search logged between the two messages
\* of the conversation
C13_Witness ==
    \E r, q \in Requests :
        /\ r # q /\ session[r] = session[q]
        /\ Finished(r) /\ response[r].status = 200 /\ dispatched[r].tts > 0
        /\ Finished(q) /\ response[q].status = 200 /\ dispatched[q].search = 1
        /\ \E i, k \in AppendsOf(r) : \A j \in AppendsOf(q) : i < j /\ j < k

\* ---------------------------------------------------------------------
\* the answer of the language model has status 200 but no usable reply: no
\* candidate, no content part, no text field, or a text of blanks only
NoUsableReply(resp) ==
    /\ ~resp.raised
    /\ resp.status = 200
    /\ \/ Len(resp.candidates) = 0
       \/ Len(resp.candidates[1].parts) = 0
       \/ ~resp.candidates[1].parts[1].text.some
       \/ \A c \in {resp.candidates[1].parts[1].text.val[i].c :
                        i \in DOMAIN resp.candidates[1].parts[1].text.val} :
                c \in {" ", "\n", "\t"}

\* the roles of the messages request r appended, as recorded in log
RolesOf(log, r) == {log[i].role : i \in {j \in DOMAIN log : log[j].request = r}}

\* C14: when the handler receives a language-model answer without usable
\* reply text, the request fails with status 500 and that step appends
\* nothing to any log; the request has not appended and never appends a
\* "model" message.
C14_EmptyReplyAppendsNothing ==
    [][ \A r \in Requests :
            /\ \A resp \in LlmResponses :
                    /\ pc[r] = "gemini" /\ pc'[r] # "gemini"
                    /\ NoUsableReply(resp)
                    /\ gemini_returns(r, resp)
                    =>  /\ Finished(r)'
                        /\ response'[r].status = 500
                        /\ append_log' = append_log
                        /\ chat_history_store' = chat_history_store
                        /\ "model" \notin RolesOf(append_log', r)
            /\ Finished(r) => RolesOf(append_log', r) = RolesOf(append_log, r)
      ]_vars

\* a request that failed on a reply of blanks only: the log of its session
\* holds its user message and nothing else
C14_Witness ==
    \E r \in Requests :
        /\ Finished(r) /\ response[r].status = 500
        /\ dispatched[r].llm = 1 /\ dispatched[r].tts = 0
        /\ faults[r] = {}
        /\ RolesOf(append_log, r) = {"user"}
        /\ get_chat_history(chat_history_store, session[r])
                = <<[role |-> "user", text |-> user_text[r]]>>

\* ---------------------------------------------------------------------
\* C15: the prompt built for a session is the fixed persona entry followed
\* by the last min(5, log length) messages of the session's log, in log
\* order and whatever their roles: at most 6 entries.
C15_PromptWindow ==
    contents # NotBuilt =>
        LET log == get_chat_history(chat_history_store, contents.session_id)
            n == IF Len(log) < 5 THEN Len(log) ELSE 5
            prompt == contents.entries
        IN  /\ Len(prompt) = 1 + n
            /\ Len(prompt) <= 6
            /\ prompt[1] = [role |-> "model",
                            parts |-> <<[text |-> PERSONA_PROMPT]>>]
            /\ \A k \in 1..n :
                    prompt[1 + k] =
                        [role |-> log[Len(log) - n + k].role,
                         parts |-> <<[text |-> log[Len(log) - n + k].text]>>]

\* a prompt built from a log of seven messages: the two oldest are left
\* out, and the five kept are of both roles, two of the same role in a row
C15_Witness ==
    /\ contents # NotBuilt
    /\ Len(get_chat_history(chat_history_store, contents.session_id)) = 7
    /\ Len(contents.entries) = 6
    /\ contents.entries[2].role = "user"
    /\ contents.entries[3].role = "user"
    /\ contents.entries[4].role = "model"
    /\ contents.entries[2].parts[1].text = TextNo(3)

\* ---------------------------------------------------------------------
\* the characters of the text spelled by the pieces, one by one
RECURSIVE Spell(_)
Spell(pieces) ==
    IF pieces = <<>> THEN <<>>
    ELSE Expand(pieces[1]) \o Spell(Tail(pieces))

\* ceil(n / d)
CeilDiv(n, d) == (n + d - 1) \div d

C17_ChunksReconstruct ==
    chunk_out.done =>
        LET text == Spell(chunk_in)
            L == Len(text)
            cs == chunk_out.chunks
        IN  /\ \A k \in 1..Len(cs) :
                    /\ Expand(cs[k]) =
                          SubSeq(text, 3000 * (k - 1) + 1,
                                 IF 3000 * k < L THEN 3000 * k ELSE L)
                    /\ Len(Expand(cs[k])) \in 1..3000
                    /\ k < Len(cs) => Len(Expand(cs[k])) = 3000
            /\ Spell(cs) = text

\* a text of 6000 characters split into two chunks of exactly 3000, the
\* first of mixed characters, the cut between two different characters
C17_Witness ==
    /\ chunk_out.done
    /\ Len(chunk_out.chunks) = 2
    /\ Len(Spell(chunk_in)) = 6000
    /\ Spell(chunk_in)[1] # Spell(chunk_in)[3000]
    /\ Spell(chunk_in)[3000] # Spell(chunk_in)[3001]

\* ---------------------------------------------------------------------
\* the prompt entry of a message
Entry(role, text) == [role |-> role, parts |-> <<[text |-> text]>>]

\* C18: the prompt a conversation request sends to the language model ends
\* with that request's own user text, whatever other requests of the same
\* session do meanwhile; the entry before it is the message that was last
\* in the session's log when the request appended its own (or the persona,
\* if there was none).
C18_PromptEndsWithOwnText ==
    \A r \in Requests :
        dispatched[r].llm = 1 =>
            LET prompt == gemini_request[r]
                own == CHOOSE i \in AppendsOf(r) : append_log[i].role = "user"
                before == LogOf(SubSeq(append_log, 1, own - 1), session[r])
            IN  /\ Conversation(Expand(user_text[r]))
                /\ Len(prompt) >= 2
                /\ prompt[Len(prompt)] = Entry("user", user_text[r])
                /\ prompt[Len(prompt) - 1] =
                        IF before = <<>>
                        THEN Entry("model", PERSONA_PROMPT)
                        ELSE Entry(before[Len(before)].role,
                                   before[Len(before)].text)

\* two conversation requests of one session with different texts, the
\* second received while the first waits for the language model: the prompt
\* of the second holds the text of the first, then its own
C18_Witness ==
    \E r, q \in Requests :
        /\ r # q /\ session[r] = session[q]
        /\ pc[r] = "gemini" /\ pc[q] = "gemini"
        /\ user_text[r] # user_text[q]
        /\ Len(gemini_request[q]) = 3
        /\ gemini_request[q][2] = Entry("user", user_text[r])
        /\ gemini_request[q][3] = Entry("user", user_text[q])

\* ---------------------------------------------------------------------
\* the roles of the first n messages of a log that are role
Among(history, n, role) ==
    Cardinality({i \in 1..n : history[i].role = role})

\* C19: in every reachable state, every prefix of every session's log holds
\* at least as many "user" messages as "model" messages, whatever the
\* interleaving of the requests and whichever of them fail.
C19_UserBeforeModel ==
    \A s \in Sessions :
        LET history == get_chat_history(chat_history_store, s)
        IN  \A n \in 0..Len(history) :
                Among(history, n, "user") >= Among(history, n, "model")

\* a session with two conversation requests in flight at once, one of which
\* failed after its reply was logged: two user messages, then two replies
C19_Witness ==
    \E s \in Sessions, r \in Requests :
        LET history == get_chat_history(chat_history_store, s)
        IN  /\ [i \in DOMAIN history |-> history[i].role]
                    = <<"user", "user", "model", "model">>
            /\ session[r] = s
            /\ Finished(r) /\ response[r].status = 500

\* ---------------------------------------------------------------------
\* request r ended with a 500 after its synthesis requests were sent
FailedInSynthesis(r) ==
    Finished(r) /\ response[r].status = 500 /\ dispatched[r].tts > 0

\* the search or news call of request r raised
SkillRaised(r) ==
    faults[r] \cap {"search:raise", "news:raise", "news:missing"} # {}

\* C20: a conversation request that failed during speech synthesis has
\* appended its user text and then the reply of the language model, and both
\* are in the log of its session; a search or news request whose skill call
\* raised ended with a 500 and appended nothing.
C20_PartialHistoryOnFailure ==
    \A r \in Requests :
        /\ FailedInSynthesis(r) =>
              /\ \E i, j \in AppendsOf(r) :
                    /\ AppendsOf(r) = {i, j}
                    /\ i < j
                    /\ append_log[i].role = "user"
                    /\ append_log[i].text = user_text[r]
                    /\ append_log[j].role = "model"
                    /\ append_log[j].text = llm_reply[r]
              /\ llm_reply[r] # <<>>
              /\ LoggedInOrder(session[r],
                               [role |-> "user", text |-> user_text[r]],
                               [role |-> "model", text |-> llm_reply[r]])
        /\ SkillRaised(r) =>
              /\ Finished(r) /\ response[r].status = 500
              /\ AppendsOf(r) = {}

\* one request failed in synthesis and left its two messages, another, of
\* a session of its own, failed in its search and left no log at all
C20_Witness ==
    \E r, q \in Requests :
        /\ FailedInSynthesis(r)
        /\ Len(get_chat_history(chat_history_store, session[r])) = 2
        /\ "search:raise" \in faults[q]
        /\ session[q] \notin DOMAIN chat_history_store

====
